---- MODULE Spec2Model ----
(***************************************************************************)
(* Model of pydda/vis/streamline_plot.py: the module import and the four   *)
(* streamline plotting functions.  A call is modelled by the sequence of   *)
(* drawing operations it issues on the axis, the warnings it emits and the *)
(* way it ends (returned, or the exception that reaches the caller).       *)
(*                                                                         *)
(* Encoding.  Arrays are functions from index tuples to cells; a cell is a *)
(* number or NaN.  A numpy array is [isMA, data, mask]: isMA says whether  *)
(* it is a numpy.ma.MaskedArray.  Wind and reflectivity values are         *)
(* integers, coordinates are integers (metres, millidegrees), angles are   *)
(* milliradians.  Python's None is an option record with isNone = TRUE.    *)
(***************************************************************************)
EXTENDS Integers, Sequences, FiniteSets, TLC

VARIABLES module, geoaxes, CARTOPY_AVAILABLE, Grids, args, result, history

vars == <<module, geoaxes, CARTOPY_AVAILABLE, Grids, args, result, history>>

\* ---------------------------------------------------------------- bounds

\* Points along each axis of a grid (z, y, x).
GridDim == 2
\* Largest number of grids in the Grids list.
MaxGrids == 2
\* Completed calls remembered to compare calls with equal arguments.
MaxHistory == 3

Idx == 0 .. (GridDim - 1)
Idx3 == Idx \X Idx \X Idx
Idx2 == Idx \X Idx

\* ------------------------------------------------------------ the records

\* The keywords the four signatures share, in the order of the def.
CommonParams ==
    {"Grids", "ax", "background_field", "level", "cmap", "vmin", "vmax",
     "u_vel_contours", "v_vel_contours", "w_vel_contours", "wind_vel_contours",
     "u_field", "v_field", "w_field", "title_flag", "axes_labels_flag",
     "colorbar_flag", "colorbar_contour_flag", "bg_grid_no", "contour_alpha",
     "arrowsize", "linewidth"}

\* Option values for arguments that default to None.
None == [isNone |-> TRUE, lv |-> <<>>]
Some(s) == [isNone |-> FALSE, lv |-> s]

\* The four contour overlays.
Layers == {"w", "u", "v", "wind"}

NoRaise == [l \in Layers |-> ""]

\* The arguments of a call with every keyword at its default.  fn is the
\* function called, passed the keywords the caller writes, ax_given whether
\* ax is not None, raises the call of each try block that raises ValueError.
Defaults(f) ==
    [background_field |-> "reflectivity", level |-> 1,
     vmin |-> None, vmax |-> None,
     u_vel_contours |-> None, v_vel_contours |-> None,
     w_vel_contours |-> None, wind_vel_contours |-> None,
     u_field |-> "u", v_field |-> "v", w_field |-> "w",
     title_flag |-> TRUE, axes_labels_flag |-> TRUE,
     colorbar_flag |-> TRUE, colorbar_contour_flag |-> FALSE,
     bg_grid_no |-> 0,
     show_lobes |-> "True", coastlines |-> TRUE, gridlines |-> TRUE,
     fn |-> f, passed |-> {"Grids"}, ax_given |-> FALSE, raises |-> NoRaise]

\* A cell of an array: a number or NaN.
Num(k) == [nan |-> FALSE, n |-> k]
NaN == [nan |-> TRUE, n |-> 0]

\* A numpy array: ndarray (isMA false, nothing masked) or MaskedArray.
Array(ma, cells, m) == [isMA |-> ma, data |-> cells, mask |-> m]

\* A call on the axis or on pyplot.
BaseOp ==
    [data |-> Array(FALSE, <<>>, <<>>), op |-> "", layer |-> "",
     x |-> <<>>, y |-> <<>>, src |-> "", data2 |-> Array(FALSE, <<>>, <<>>),
     levels |-> None, lims |-> <<>>, label |-> <<>>, pair |-> <<>>, num |-> 0]

\* The outcome of a block of statements: the operations it issued, the
\* warnings it emitted and the exception it raised ("" for none).
Ok(ops) == [ops |-> ops, warns |-> <<>>, exc |-> ""]
Raise(ops, e) == [ops |-> ops, warns |-> <<>>, exc |-> e]
Caught(ops, w) == [ops |-> ops, warns |-> <<w>>, exc |-> ""]

\* What a call leaves behind: the operations it issued, the warnings it
\* emitted and how it ended.
Outcome(r) ==
    [ops |-> r.ops, warns |-> r.warns,
     outcome |-> IF r.exc = "" THEN "returned" ELSE r.exc]

NoResult == [ops |-> <<>>, warns |-> <<>>, outcome |-> "none"]

\* A completed call as it is remembered.
Entry(G, a, r) == [grids |-> G, call |-> a, res |-> r]

\* ------------------------------------------------------------ numpy layer

NoMask(dom) == [c \in dom |-> FALSE]

\* A plain numpy.ndarray with the given cells.
NdArray(cells) == Array(FALSE, cells, NoMask(DOMAIN cells))

\* A numpy.ma.MaskedArray with the given cells and mask.
MaskedArray(cells, mask) == Array(TRUE, cells, mask)

NoData == NdArray(<<>>)

\* a[i, :, :], a[:, i, :] and a[:, :, i] for axis 0, 1 and 2.
Pos(axis, i, rc) ==
    CASE axis = 0 -> <<i, rc[1], rc[2]>>
      [] axis = 1 -> <<rc[1], i, rc[2]>>
      [] OTHER    -> <<rc[1], rc[2], i>>

Slice(a, axis, i) ==
    Array(a.isMA,
          [rc \in Idx2 |-> a.data[Pos(axis, i, rc)]],
          [rc \in Idx2 |-> a.mask[Pos(axis, i, rc)]])

\* Slice of a coordinate array (a plain function of the index).
CSlice(f, axis, i) == [rc \in Idx2 |-> f[Pos(axis, i, rc)]]

\* MaskedArray.filled(fill): a plain array, fill at every masked position.
Filled_NoFill(a, fill) == a
Filled(a, fill) ==
    NdArray([c \in DOMAIN a.data |-> IF a.mask[c] THEN fill ELSE a.data[c]])

\* if isinstance(x, np.ma.MaskedArray): x = x.filled(np.nan)
FillIfMasked(a) == IF a.isMA THEN Filled(a, NaN) ELSE a

\* np.ma.filled(a, fill_value): an ndarray is returned as it is.
MaFilled(a, fill) == IF a.isMA THEN Filled(a, fill) ELSE a

\* a < n, element-wise; a comparison with NaN is False.
Less(cell, n) == (~cell.nan) /\ cell.n < n

\* np.ma.masked_where(a < n, a)
MaskedWhereLess(a, n) ==
    MaskedArray(a.data, [c \in DOMAIN a.data |-> a.mask[c] \/ Less(a.data[c], n)])

Abs(n) == IF n < 0 THEN -n ELSE n

\* Integer part of the square root.
Isqrt(n, hi) == CHOOSE r \in 0 .. hi : r * r <= n /\ n < (r + 1) * (r + 1)

Hypot(a, b) ==
    IF a.nan \/ b.nan THEN NaN
    ELSE Num(Isqrt(a.n * a.n + b.n * b.n, Abs(a.n) + Abs(b.n)))

\* np.ma.sqrt(u ** 2 + v ** 2): a MaskedArray, masked where u or v is.
MaSpeed(u, v) ==
    MaskedArray([c \in DOMAIN u.data |-> Hypot(u.data[c], v.data[c])],
                [c \in DOMAIN u.data |-> u.mask[c] \/ v.mask[c]])

SetMin(S) == CHOOSE m \in S : \A x \in S : m <= x
SetMax(S) == CHOOSE m \in S : \A x \in S : m >= x

SeqRange(s) == {s[k] : k \in DOMAIN s}

\* np.min / np.max of a list of contour levels; ValueError on an empty one.
NpMinRaises(lv) == Len(lv) = 0
NpMin(lv) == SetMin(SeqRange(lv))
NpMax(lv) == SetMax(SeqRange(lv))

\* a.min() / a.max(): over the unmasked cells.
Valid(a) == {a.data[c].n : c \in {d \in DOMAIN a.data : ~a.mask[d] /\ ~a.data[d].nan}}
ArrMin(a) == SetMin(Valid(a))
ArrMax(a) == SetMax(Valid(a))

\* np.ma.stack(arrays).max(axis=0): element-wise maximum over the unmasked
\* entries; masked where every array is masked.
StackMax(arrs) ==
    LET dom == DOMAIN arrs[1].data
        cand(c) == {arrs[k].data[c].n : k \in {j \in DOMAIN arrs : ~arrs[j].mask[c]}}
    IN MaskedArray([c \in dom |-> IF cand(c) = {} THEN arrs[1].data[c]
                                  ELSE Num(SetMax(cand(c)))],
                   [c \in dom |-> cand(c) = {}])

\* math.radians(deg), in milliradians.
Radians(deg) == (deg * 17453) \div 1000

\* ------------------------------------------------------------------ grids

\* Grids[i] with Python's indexing: 0-based, negative counts from the end.
PyIndex(G, i) == IF i < 0 THEN G[Len(G) + i + 1] ELSE G[i + 1]

\* Whether Grids[i] exists; Python raises IndexError when it does not.
InRange(G, i) == -Len(G) <= i /\ i < Len(G)

\* Grids[i][name].values.squeeze() and Grids[i][name].attrs
Values(G, i, name) == PyIndex(G, i).fields[name]
Attrs(G, i, name) == PyIndex(G, i).attrs[name]

\* Grids[0]["point_x"].values / 1e3 (and point_y, point_altitude): metres
\* to kilometres; the model's coordinates are whole kilometres in metres.
Km(f) == [c \in DOMAIN f |-> f[c] \div 1000]

CoordMin(f) == SetMin({f[c] : c \in DOMAIN f})
CoordMax(f) == SetMax({f[c] : c \in DOMAIN f})

\* ---------------------------------------------------- drawing operations

\* Statement blocks in program order: a block after a raising one is not run.
RECURSIVE RunFrom(_, _, _)
RunFrom(blocks, k, acc) ==
    IF k > Len(blocks) \/ acc.exc # "" THEN acc
    ELSE RunFrom(blocks, k + 1,
                 [ops |-> acc.ops \o blocks[k].ops,
                  warns |-> acc.warns \o blocks[k].warns,
                  exc |-> blocks[k].exc])

Run(blocks) == RunFrom(blocks, 1, Ok(<<>>))

\* if ax is None: ax = plt.gca()   /   ax = plt.axes(projection=transform)
GetAxis(a, how) == IF a.ax_given THEN Ok(<<>>) ELSE Ok(<<[BaseOp EXCEPT !.op = how]>>)

\* vmin / vmax: the argument, or grid_bg.min() / grid_bg.max() when None.
Vmin(a, grid_bg) == IF a.vmin.isNone THEN ArrMin(grid_bg) ELSE a.vmin.lv[1]
Vmax(a, grid_bg) == IF a.vmax.isNone THEN ArrMax(grid_bg) ELSE a.vmax.lv[1]

Mesh(a, x, y, grid_bg, slice) ==
    Ok(<<[BaseOp EXCEPT !.op = "pcolormesh", !.layer = "background",
                        !.x = x, !.y = y, !.src = a.background_field,
                        !.data = slice,
                        !.lims = <<Vmin(a, grid_bg), Vmax(a, grid_bg)>>]>>)

Streamplot(x, y, src1, d1, src2, d2) ==
    Ok(<<[BaseOp EXCEPT !.op = "streamplot", !.layer = "streamlines",
                        !.x = x, !.y = y, !.src = src1, !.data = d1,
                        !.label = <<src2>>, !.data2 = d2]>>)

\* if colorbar_flag is True: the label is read from Grids[bg_grid_no].
BgColorbar(G, a) ==
    IF a.colorbar_flag
    THEN LET at == Attrs(G, a.bg_grid_no, a.background_field)
         IN Ok(<<[BaseOp EXCEPT !.op = "colorbar", !.layer = "background",
                                !.label = <<at.long_name, " [", at.units, "]">>]>>)
    ELSE Ok(<<>>)

ContourOp(kind, layer, x, y, src, data, levels) ==
    [BaseOp EXCEPT !.op = kind, !.layer = layer, !.x = x, !.y = y,
                   !.src = src, !.data = data, !.levels = levels]

ClabelOp(layer) == [BaseOp EXCEPT !.op = "clabel", !.layer = layer]

SetClimOp(layer, lv) ==
    [BaseOp EXCEPT !.op = "set_clim", !.layer = layer,
                   !.lims = <<NpMin(lv), NpMax(lv)>>]

ContourColorbar(a, layer, label, ticks) ==
    IF a.colorbar_contour_flag
    THEN <<[BaseOp EXCEPT !.op = "colorbar", !.layer = layer,
                          !.label = <<label>>, !.levels = ticks]>>
    ELSE <<>>

\* The u, v and w blocks of the three plain-axis functions.
PlainContour(a, layer, x, y, src, data, levels, label) ==
    Ok(<<ContourOp("contour", layer, x, y, src, data, levels), ClabelOp(layer)>>
       \o ContourColorbar(a, layer, label, None))

\* The wind speed block of the three plain-axis functions: set_clim takes
\* np.min and np.max of the levels after the contour call.
PlainSpeedContour(a, x, y, vel, label) ==
    LET c == ContourOp("contour", "wind", x, y, "speed", vel, a.wind_vel_contours)
    IN IF NpMinRaises(a.wind_vel_contours.lv)
       THEN Raise(<<c>>, "ValueError")
       ELSE Ok(<<c, SetClimOp("wind", a.wind_vel_contours.lv), ClabelOp("wind")>>
               \o ContourColorbar(a, "wind", label, None))

\* if show_lobes is True: one contour per ordered pair of distinct grids.
\* bca = retrieval.get_bca(Grids[i], Grids[j]) is computed outside this
\* module; the operation records the pair it was computed for.
RECURSIVE LobePairs(_, _, _)
LobePairs(n, i, j) ==
    IF i >= n THEN <<>>
    ELSE IF j >= n THEN LobePairs(n, i + 1, 0)
    ELSE (IF i # j THEN <<(<<i, j>>)>> ELSE <<>>) \o LobePairs(n, i, j + 1)

BcaLevels_FromLastGrid(G, a) ==
    Some(<<Radians(Attrs(G, -1, a.u_field).min_bca),
           Radians(Attrs(G, -1, a.u_field).max_bca)>>)

\* bca_min, bca_max = math.radians(Grids[0][u_field].attrs[...])
BcaLevels(G, a) ==
    Some(<<Radians(Attrs(G, 0, a.u_field).min_bca),
           Radians(Attrs(G, 0, a.u_field).max_bca)>>)

LobeOp(G, a, x, y, p) ==
    [BaseOp EXCEPT !.op = "contour", !.layer = "lobes", !.x = x, !.y = y,
                   !.src = "bca", !.levels = BcaLevels(G, a), !.pair = p]

Lobes(G, a, x, y) ==
    IF a.show_lobes = "True"
    THEN LET ps == LobePairs(Len(G), 0, 0)
         IN Ok([k \in 1 .. Len(ps) |-> LobeOp(G, a, x, y, ps[k])])
    ELSE Ok(<<>>)

AxesLabels(a, xl, yl) ==
    IF a.axes_labels_flag
    THEN Ok(<<[BaseOp EXCEPT !.op = "set_xlabel", !.label = <<xl>>],
              [BaseOp EXCEPT !.op = "set_ylabel", !.label = <<yl>>]>>)
    ELSE Ok(<<>>)

TitleOp(text, value) ==
    [BaseOp EXCEPT !.op = "set_title", !.label = text, !.num = value]

Limits(kind, f) == [BaseOp EXCEPT !.op = kind, !.lims = <<CoordMin(f), CoordMax(f)>>]

\* ------------------------------------------- plot_horiz_xsection_streamlines

IfGiven(levels, block) == IF levels.isNone THEN Ok(<<>>) ELSE block

PlotHoriz(G, a) ==
    LET grid_bg == Values(G, a.bg_grid_no, a.background_field)
        grid_h == Km(PyIndex(G, 0).point_altitude)
        grid_x == Km(PyIndex(G, 0).point_x)
        grid_y == Km(PyIndex(G, 0).point_y)
        u == FillIfMasked(Values(G, 0, a.u_field))
        v == FillIfMasked(Values(G, 0, a.v_field))
        w == FillIfMasked(Values(G, 0, a.w_field))
        x == CSlice(grid_x, 0, a.level)
        y == CSlice(grid_y, 0, a.level)
        ul == Slice(u, 0, a.level)
        vl == Slice(v, 0, a.level)
        wl == Slice(w, 0, a.level)
    IN Run(<<
        GetAxis(a, "gca"),
        Mesh(a, x, y, grid_bg, Slice(grid_bg, 0, a.level)),
        Streamplot(x, y, a.u_field, ul, a.v_field, vl),
        BgColorbar(G, a),
        IfGiven(a.u_vel_contours,
                PlainContour(a, "u", x, y, a.u_field, MaFilled(ul, NaN),
                             a.u_vel_contours, "U [m/s]")),
        IfGiven(a.v_vel_contours,
                PlainContour(a, "v", x, y, a.v_field, MaFilled(vl, NaN),
                             a.u_vel_contours, "V [m/s]")),
        IfGiven(a.w_vel_contours,
                PlainContour(a, "w", x, y, a.w_field, MaFilled(wl, NaN),
                             a.w_vel_contours, "W [m/s]")),
        IfGiven(a.wind_vel_contours,
                PlainSpeedContour(a, x, y, MaSpeed(ul, vl), "|V| [m/s]")),
        Lobes(G, a, x, y),
        AxesLabels(a, "X [km]", "Y [km]"),
        IF a.title_flag
        THEN Ok(<<TitleOp(<<"PyDDA retreived winds @", " km">>,
                          grid_h[<<a.level, 0, 0>>])>>)
        ELSE Ok(<<>>),
        Ok(<<Limits("set_xlim", grid_x), Limits("set_ylim", grid_y)>>)
    >>)

\* --------------------------------------- plot_horiz_xsection_streamlines_map

BlankContourMsg == "Cartopy does not support blank contour plots, contour color map not drawn!"
BlankColorMapMsg == "Cartopy does not support color maps on blank contour plots, contour color map not drawn!"

RuntimeWarning(msg) == <<"RuntimeWarning", msg>>

\* Which calls of a try block the raise point names.
Hits(o, point) ==
    \/ point = "draw" /\ o.op \in {"contour", "contourf"}
    \/ point = "clabel" /\ o.op = "clabel"
    \/ point = "colorbar" /\ o.op = "colorbar"

\* try: <ops> except ValueError: warnings.warn(msg, RuntimeWarning).
\* a.raises[layer] names the call of the block that raises ValueError on
\* this axis and data ("" when none does); the calls before it were made.
TryExcept_NoHandler(a, layer, ops, msg) ==
    LET hit == {k \in 1 .. Len(ops) : Hits(ops[k], a.raises[layer])}
    IN IF hit = {} THEN Ok(ops)
       ELSE Raise(SubSeq(ops, 1, SetMin(hit) - 1), "ValueError")

TryExcept(a, layer, ops, msg) ==
    LET hit == {k \in 1 .. Len(ops) : Hits(ops[k], a.raises[layer])}
    IN IF hit = {} THEN Ok(ops)
       ELSE Caught(SubSeq(ops, 1, SetMin(hit) - 1), RuntimeWarning(msg))

\* The u, v and w blocks: np.ma.masked_where(f < np.min(own), f) is
\* evaluated before the try statement.
MapContour(a, kind, layer, x, y, src, field, own, drawn, label, ticks, msg) ==
    IF NpMinRaises(own.lv) THEN Raise(<<>>, "ValueError")
    ELSE TryExcept(a, layer,
                   <<ContourOp(kind, layer, x, y, src,
                               MaskedWhereLess(field, NpMin(own.lv)), drawn),
                     SetClimOp(layer, own.lv), ClabelOp(layer)>>
                   \o ContourColorbar(a, layer, label, ticks),
                   msg)

MapSpeedContour(a, x, y, vel) ==
    TryExcept(a, "wind",
              <<ContourOp("contour", "wind", x, y, "speed", vel, a.wind_vel_contours),
                ClabelOp("wind")>>
              \o ContourColorbar(a, "wind", "|V\\ [m/s]", a.w_vel_contours),
              BlankColorMapMsg)

\* int(round((hi - lo) * 10) + 1) for hi, lo in millidegrees.
NumTenths(lo, hi) == ((hi - lo) + 50) \div 100 + 1

Ticks(kind, f) ==
    [BaseOp EXCEPT !.op = kind, !.lims = <<CoordMin(f), CoordMax(f)>>,
                   !.num = NumTenths(CoordMin(f), CoordMax(f))]

MapBackground(G, a) ==
    IF a.bg_grid_no > -1
    THEN Values(G, a.bg_grid_no, a.background_field)
    ELSE StackMax([k \in 1 .. Len(G) |-> G[k].fields[a.background_field]])

PlotHorizMap(G, a, cartopy) ==
    IF ~cartopy THEN Raise(<<>>, "ModuleNotFoundError")
    ELSE IF a.bg_grid_no > -1 /\ ~InRange(G, a.bg_grid_no) THEN Raise(<<>>, "IndexError")
    ELSE
    LET grid_bg == MapBackground(G, a)
        grid_h == Km(PyIndex(G, 0).point_altitude)
        grid_x == Km(PyIndex(G, 0).point_x)
        grid_y == Km(PyIndex(G, 0).point_y)
        grid_lat == CSlice(PyIndex(G, 0).point_latitude, 0, a.level)
        grid_lon == CSlice(PyIndex(G, 0).point_longitude, 0, a.level)
        u == FillIfMasked(Values(G, 0, a.u_field))
        v == FillIfMasked(Values(G, 0, a.v_field))
        w == FillIfMasked(Values(G, 0, a.w_field))
        ul == Slice(u, 0, a.level)
        vl == Slice(v, 0, a.level)
        wl == Slice(w, 0, a.level)
    IN Run(<<
        GetAxis(a, "axes"),
        Mesh(a, grid_lon, grid_lat, grid_bg, Slice(grid_bg, 0, a.level)),
        Streamplot(grid_lon, grid_lat, a.u_field, ul, a.v_field, vl),
        BgColorbar(G, a),
        IfGiven(a.u_vel_contours,
                MapContour(a, "contourf", "u", grid_lon, grid_lat, a.u_field, ul,
                           a.u_vel_contours, a.u_vel_contours, "U [m/s]", None,
                           BlankContourMsg)),
        IfGiven(a.v_vel_contours,
                MapContour(a, "contour", "v", grid_lon, grid_lat, a.v_field, vl,
                           a.v_vel_contours, a.u_vel_contours, "V [m/s]", None,
                           BlankContourMsg)),
        IfGiven(a.w_vel_contours,
                MapContour(a, "contour", "w", grid_lon, grid_lat, a.w_field, wl,
                           a.w_vel_contours, a.w_vel_contours, "W [m/s]",
                           a.w_vel_contours, BlankColorMapMsg)),
        IfGiven(a.wind_vel_contours,
                MapSpeedContour(a, CSlice(grid_x, 0, a.level),
                                CSlice(grid_y, 0, a.level),
                                Filled(MaSpeed(ul, vl), NaN))),
        Lobes(G, a, grid_lon, grid_lat),
        AxesLabels(a, "Latitude [$^{\\circ}$]", "Longitude [$^{\\circ}$]"),
        IF a.title_flag
        THEN Ok(<<TitleOp(<<"PyDDA retreived winds @", " km">>,
                          grid_h[<<a.level, 0, 0>>])>>)
        ELSE Ok(<<>>),
        IF a.coastlines THEN Ok(<<[BaseOp EXCEPT !.op = "coastlines"]>>) ELSE Ok(<<>>),
        IF a.gridlines THEN Ok(<<[BaseOp EXCEPT !.op = "gridlines"]>>) ELSE Ok(<<>>),
        Ok(<<[BaseOp EXCEPT !.op = "set_extent",
                            !.lims = <<CoordMin(grid_lon), CoordMax(grid_lon),
                                       CoordMin(grid_lat), CoordMax(grid_lat)>>],
             Ticks("set_xticks", grid_lon), Ticks("set_yticks", grid_lat)>>)
    >>)

\* ---------------------------------------------- plot_xz_xsection_streamlines

PlotXZ(G, a) ==
    LET grid_bg == Values(G, a.bg_grid_no, a.background_field)
        grid_h == Km(PyIndex(G, 0).point_altitude)
        grid_x == Km(PyIndex(G, 0).point_x)
        grid_y == Km(PyIndex(G, 0).point_y)
        u == FillIfMasked(Values(G, 0, a.u_field))
        v == FillIfMasked(Values(G, 0, a.v_field))
        w == FillIfMasked(Values(G, 0, a.w_field))
        x == CSlice(grid_x, 1, a.level)
        h == CSlice(grid_h, 1, a.level)
        ul == Slice(u, 1, a.level)
        vl == Slice(v, 1, a.level)
        wl == Slice(w, 1, a.level)
        north == grid_y[<<0, a.level, 0>>]
    IN Run(<<
        GetAxis(a, "gca"),
        Mesh(a, x, h, grid_bg, Slice(grid_bg, 1, a.level)),
        Streamplot(x, h, a.u_field, ul, a.w_field, wl),
        BgColorbar(G, a),
        IfGiven(a.u_vel_contours,
                PlainContour(a, "u", x, h, a.u_field, MaFilled(ul, NaN),
                             a.u_vel_contours, "U [m/s]")),
        IfGiven(a.v_vel_contours,
                PlainContour(a, "v", x, h, a.w_field, MaFilled(wl, NaN),
                             a.v_vel_contours, "V [m/s]")),
        IfGiven(a.w_vel_contours,
                PlainContour(a, "w", x, h, a.w_field, MaFilled(wl, NaN),
                             a.w_vel_contours, "W [m/s]")),
        IfGiven(a.wind_vel_contours,
                PlainSpeedContour(a, x, h, Filled(MaSpeed(ul, vl), NaN), "|V| [m/s]")),
        AxesLabels(a, "X [km]", "Z [km]"),
        IF a.title_flag
        THEN IF north > 0
             THEN Ok(<<TitleOp(<<"PyDDA retreived winds @", " km north of origin.">>,
                               north)>>)
             ELSE Ok(<<TitleOp(<<"PyDDA retreived winds @", " km south of origin.">>,
                               -north)>>)
        ELSE Ok(<<>>),
        Ok(<<Limits("set_xlim", grid_x), Limits("set_ylim", grid_h)>>)
    >>)

\* ---------------------------------------------- plot_yz_xsection_streamlines

PlotYZ(G, a) ==
    LET grid_bg == Values(G, a.bg_grid_no, a.background_field)
        grid_h == Km(PyIndex(G, 0).point_altitude)
        grid_x == Km(PyIndex(G, 0).point_x)
        grid_y == Km(PyIndex(G, 0).point_y)
        u == FillIfMasked(Values(G, 0, a.u_field))
        v == FillIfMasked(Values(G, 0, a.v_field))
        w == FillIfMasked(Values(G, 0, a.w_field))
        y == CSlice(grid_y, 2, a.level)
        h == CSlice(grid_h, 2, a.level)
        ul == Slice(u, 2, a.level)
        vl == Slice(v, 2, a.level)
        wl == Slice(w, 2, a.level)
    IN Run(<<
        GetAxis(a, "gca"),
        Mesh(a, y, h, grid_bg, Slice(grid_bg, 2, a.level)),
        Streamplot(y, h, a.v_field, vl, a.w_field, wl),
        BgColorbar(G, a),
        IfGiven(a.u_vel_contours,
                PlainContour(a, "u", y, h, a.u_field, MaFilled(ul, NaN),
                             a.u_vel_contours, "U [m/s]")),
        IfGiven(a.v_vel_contours,
                PlainContour(a, "v", y, h, a.v_field, MaFilled(vl, NaN),
                             a.w_vel_contours, "V [m/s]")),
        IfGiven(a.w_vel_contours,
                PlainContour(a, "w", y, h, a.w_field, MaFilled(wl, NaN),
                             a.w_vel_contours, "W [m/s]")),
        IfGiven(a.wind_vel_contours,
                PlainSpeedContour(a, y, h, Filled(MaSpeed(ul, vl), NaN), "|V| [m/s]")),
        AxesLabels(a, "Y [km]", "Z [km]"),
        IF a.title_flag
        THEN IF grid_x[<<0, 0, a.level>>] > 0
             THEN Ok(<<TitleOp(<<"PyDDA retreived winds @", " km east of origin.">>,
                               grid_x[<<0, a.level, 0>>])>>)
             ELSE Ok(<<TitleOp(<<"PyDDA retreived winds @", " km west of origin.">>,
                               -grid_x[<<0, a.level, 0>>])>>)
        ELSE Ok(<<>>),
        Ok(<<Limits("set_xlim", grid_y), Limits("set_ylim", grid_h)>>)
    >>)

\* ------------------------------------------------------------- signatures

\* The parameters each def accepts; there is no **kwargs.
Params(fn) ==
    CASE fn = "horiz" -> CommonParams \cup {"show_lobes"}
      [] fn = "map"   -> CommonParams \cup {"show_lobes", "coastlines", "gridlines"}
      [] fn = "xz"    -> CommonParams
      [] fn = "yz"    -> CommonParams

\* A call: Python binds the keywords (TypeError on one the def does not
\* have), then the body runs.
Plot(G, a, cartopy) ==
    IF ~(a.passed \subseteq Params(a.fn)) THEN Outcome(Raise(<<>>, "TypeError"))
    ELSE IF a.fn = "map" THEN Outcome(PlotHorizMap(G, a, cartopy))
    ELSE IF ~InRange(G, a.bg_grid_no) THEN Outcome(Raise(<<>>, "IndexError"))
    ELSE CASE a.fn = "horiz" -> Outcome(PlotHoriz(G, a))
           [] a.fn = "xz"    -> Outcome(PlotXZ(G, a))
           [] a.fn = "yz"    -> Outcome(PlotYZ(G, a))

\* ------------------------------------------------------------ the inputs

\* Position of a cell in C order.
Lin(c) == (c[1] * GridDim + c[2]) * GridDim + c[3]
Cells == GridDim * GridDim * GridDim

\* How a wind field arrives: a plain ndarray, a MaskedArray with nothing
\* masked, or a MaskedArray with every third cell masked.
MaskKinds == {"ndarray", "ma_clear", "ma_some"}

Field(kind, cells, shift) ==
    IF kind = "ndarray" THEN NdArray(cells)
    ELSE MaskedArray(cells, [c \in Idx3 |-> kind = "ma_some" /\ (Lin(c) + shift) % 3 = 0])

\* The k-th grid of a list (k = 1 is Grids[0]).  Reflectivity rises with the
\* cell position in odd grids and falls in even ones, so that the
\* element-wise maximum over two grids is the field of neither.
MkGrid(k, ku, kv, kw) ==
    LET at == [long_name |-> "reflectivity", units |-> "dBZ",
               min_bca |-> 20 + 10 * k, max_bca |-> 160 - 10 * k]
    IN [fields |->
            [w |-> Field(kw, [c \in Idx3 |-> Num(Lin(c) - 2 - k)], 2),
             u |-> Field(ku, [c \in Idx3 |-> Num(Lin(c) + k)], 0),
             v |-> Field(kv, [c \in Idx3 |-> Num(2 * Lin(c) + 3 + k)], 1),
             reflectivity |->
                 NdArray([c \in Idx3 |-> Num(IF k % 2 = 1 THEN 10 + Lin(c)
                                             ELSE 10 + Cells - Lin(c))])],
        attrs |->
            [w |-> at, u |-> at, v |-> at,
             reflectivity |-> [at EXCEPT !.units = IF k = 1 THEN "dBZ" ELSE "dBZ_" ]],
        point_altitude |-> [c \in Idx3 |-> 1000 * c[1]],
        point_x |-> [c \in Idx3 |-> 1000 * (2 * c[3] - 1)],
        point_y |-> [c \in Idx3 |-> 1000 * (2 * c[2] - 1)],
        point_latitude |-> [c \in Idx3 |-> 36000 + 100 * c[2]],
        point_longitude |-> [c \in Idx3 |-> -97000 + 100 * c[3]]]

\* Grid lists of every length up to MaxGrids, each grid's wind fields of
\* one kind.
MkGrids(kinds) == [k \in DOMAIN kinds |-> MkGrid(k, kinds[k], kinds[k], kinds[k])]

GridLists ==
    {MkGrids(kinds) : kinds \in UNION {[1 .. n -> MaskKinds] : n \in 1 .. MaxGrids}}

\* Grid lists whose first grid has u, v and w of independent kinds.
MixedGrids ==
    {[k \in 1 .. n |-> IF k = 1 THEN MkGrid(1, t[1], t[2], t[3])
                       ELSE MkGrid(k, "ndarray", "ndarray", "ndarray")] :
        n \in 1 .. MaxGrids, t \in MaskKinds \X MaskKinds \X MaskKinds}

Functions == {"horiz", "map", "xz", "yz"}

\* ------------------------------------------------------- the state machine

Init ==
    /\ module = "unloaded"
    /\ geoaxes = "not_tried"
    /\ CARTOPY_AVAILABLE = FALSE
    /\ Grids = <<>>
    /\ args = Defaults("horiz")
    /\ result = NoResult
    /\ history = <<>>

\* import pydda.vis.streamline_plot.  crs: whether "import cartopy.crs"
\* succeeds; geo: whether "from cartopy.mpl.geoaxes import GeoAxes" does.
\* The assignment to GeoAxes._pcolormesh_patched after the try statement
\* needs the name GeoAxes.
ImportModule ==
    /\ module = "unloaded"
    /\ \E crs \in BOOLEAN, geo \in BOOLEAN :
          IF ~crs
          THEN /\ module' = "ModuleNotFoundError"
               /\ geoaxes' = "not_tried"
               /\ CARTOPY_AVAILABLE' = FALSE
          ELSE IF geo
          THEN /\ module' = "loaded"
               /\ geoaxes' = "ok"
               /\ CARTOPY_AVAILABLE' = TRUE
          ELSE /\ module' = "NameError"
               /\ geoaxes' = "ImportError"
               /\ CARTOPY_AVAILABLE' = FALSE
    /\ UNCHANGED <<Grids, args, result, history>>

\* The caller reads or retrieves a list of grids.
LoadGrids(pool) ==
    /\ module = "loaded"
    /\ \E G \in pool : Grids' = G
    /\ result' = NoResult
    /\ UNCHANGED <<module, geoaxes, CARTOPY_AVAILABLE, args, history>>

\* The caller chooses the function and its arguments.
SetArgs(pool) ==
    /\ module = "loaded"
    /\ \E a \in pool : args' = a
    /\ result' = NoResult
    /\ UNCHANGED <<module, geoaxes, CARTOPY_AVAILABLE, Grids, history>>

Remember(h, entry, track) ==
    IF track /\ Len(h) < MaxHistory THEN Append(h, entry) ELSE h

\* One call of a plotting function, from binding the arguments to the
\* return or the exception.
Call_FillsInPlace(track) ==
    /\ module = "loaded"
    /\ Len(Grids) > 0
    /\ result = NoResult
    /\ result' = Plot(Grids, args, CARTOPY_AVAILABLE)
    /\ history' = Remember(history, Entry(Grids, args, result'), track)
    /\ Grids' = [Grids EXCEPT ![1].fields.u = FillIfMasked(@)]
    /\ UNCHANGED <<module, geoaxes, CARTOPY_AVAILABLE, args>>

Call(track) ==
    /\ module = "loaded"
    /\ Len(Grids) > 0
    /\ result = NoResult
    /\ result' = Plot(Grids, args, CARTOPY_AVAILABLE)
    /\ history' = Remember(history, Entry(Grids, args, result'), track)
    /\ UNCHANGED <<module, geoaxes, CARTOPY_AVAILABLE, Grids, args>>

Step(gpool, apool, track) ==
    \/ ImportModule
    \/ LoadGrids(gpool)
    \/ SetArgs(apool)
    \/ Call(track)

\* -------------------------------------------------------- specifications

OptLevels(lv) == {None, Some(lv)}

\* Calls that vary the function, the level, the four contour arguments and
\* whether the caller passes show_lobes.
ArgsContours ==
    {[Defaults(fn) EXCEPT !.level = l, !.u_vel_contours = cu, !.v_vel_contours = cv,
                          !.w_vel_contours = cw, !.wind_vel_contours = cs,
                          !.passed = {"Grids"} \cup kw] :
        fn \in Functions, l \in Idx,
        cu \in OptLevels(<<1, 5>>), cv \in OptLevels(<<2, 6>>),
        cw \in OptLevels(<<-3, 3>>), cs \in OptLevels(<<4, 8>>),
        kw \in {{}, {"show_lobes"}}}

Spec == Init /\ [][Step(GridLists, ArgsContours, FALSE)]_vars

\* Calls that vary the background grid number and the colour limits.
ArgsBackground ==
    {[Defaults(fn) EXCEPT !.level = l, !.bg_grid_no = b, !.vmin = lo,
                          !.colorbar_flag = cb] :
        fn \in Functions, l \in Idx, b \in -1 .. (MaxGrids - 1),
        lo \in OptLevels(<<0>>), cb \in BOOLEAN}

SpecBackground == Init /\ [][Step(GridLists, ArgsBackground, FALSE)]_vars

\* Calls of the map function that vary empty level lists, and calls whose
\* try blocks raise ValueError at one of their calls.
EmptyOr(lv) == {None, Some(<<>>), Some(lv)}

OneRaise == {[NoRaise EXCEPT ![l] = p] : l \in Layers, p \in {"colorbar", "clabel", "draw"}}

ArgsErrors ==
    {[Defaults("map") EXCEPT !.u_vel_contours = cu, !.v_vel_contours = cv,
                             !.w_vel_contours = cw, !.wind_vel_contours = cs] :
        cu \in EmptyOr(<<1, 5>>), cv \in EmptyOr(<<2, 6>>),
        cw \in EmptyOr(<<-3, 3>>), cs \in EmptyOr(<<4, 8>>)}
    \cup
    {[Defaults("map") EXCEPT !.u_vel_contours = cu, !.v_vel_contours = cv,
                             !.w_vel_contours = cw, !.wind_vel_contours = cs,
                             !.raises = r, !.colorbar_contour_flag = cb] :
        cu \in OptLevels(<<1, 5>>), cv \in OptLevels(<<2, 6>>),
        cw \in OptLevels(<<-3, 3>>), cs \in OptLevels(<<4, 8>>),
        r \in OneRaise, cb \in BOOLEAN}

TwoGrids ==
    {MkGrids(<<"ma_some">>), MkGrids(<<"ndarray", "ma_some">>)}

SpecErrors == Init /\ [][Step(TwoGrids, ArgsErrors, FALSE)]_vars

\* Calls that vary show_lobes: True, False and a truthy value that is not True.
ArgsLobes ==
    {[Defaults(fn) EXCEPT !.level = l, !.show_lobes = sl, !.passed = {"Grids"} \cup kw,
                          !.wind_vel_contours = cs] :
        fn \in Functions, l \in Idx, sl \in {"True", "False", "1"},
        kw \in {{}, {"show_lobes"}}, cs \in EmptyOr(<<4, 8>>)}

\* Grid lists of every length up to MaxGrids, all fields plain arrays.
PlainGrids == {MkGrids([k \in 1 .. n |-> "ndarray"]) : n \in 1 .. MaxGrids}

SpecLobes == Init /\ [][Step(PlainGrids, ArgsLobes, FALSE)]_vars

\* Calls on grids whose u, v and w arrive masked or not, independently.
ArgsMasked ==
    {[Defaults(fn) EXCEPT !.level = l, !.u_vel_contours = c, !.v_vel_contours = c,
                          !.w_vel_contours = c, !.wind_vel_contours = c] :
        fn \in Functions, l \in Idx, c \in OptLevels(<<2, 6>>)}

SpecMasked == Init /\ [][Step(MixedGrids, ArgsMasked, FALSE)]_vars

\* A few calls, remembered in order, to compare repeated calls.
ArgsRepeated ==
    {Defaults("horiz"),
     [Defaults("map") EXCEPT !.u_vel_contours = Some(<<1, 5>>)],
     [Defaults("xz") EXCEPT !.wind_vel_contours = Some(<<4, 8>>), !.ax_given = TRUE]}

SpecRepeated == Init /\ [][Step(TwoGrids, ArgsRepeated, TRUE)]_vars

\* ------------------------------------------------------------ properties

Done == result # NoResult
Returned == result.outcome = "returned"

\* The axis each function slices along: [level, :, :], [:, level, :], [:, :, level].
Axis(fn) == CASE fn \in {"horiz", "map"} -> 0 [] fn = "xz" -> 1 [] OTHER -> 2

\* A wind field of Grids[0] as the caller handed it over, sliced at the level.
Given(name) == Slice(Grids[1].fields[name], Axis(args.fn), args.level)

IsDraw(o) == o.op \in {"contour", "contourf"}

\* The positions of the operations of one block of the function.
Drawn(layer) ==
    {k \in DOMAIN result.ops : IsDraw(result.ops[k]) /\ result.ops[k].layer = layer}

LevelsArg(q) ==
    CASE q = "u" -> args.u_vel_contours
      [] q = "v" -> args.v_vel_contours
      [] q = "w" -> args.w_vel_contours
      [] OTHER   -> args.wind_vel_contours

\* The quantity an overlay is documented to show: the field named by
\* u_field, v_field or w_field, or the horizontal wind speed.
Quantity(q) ==
    CASE q = "u" -> args.u_field
      [] q = "v" -> args.v_field
      [] q = "w" -> args.w_field
      [] OTHER   -> "speed"

\* The values of a drawn array are those of the given one wherever the
\* given one is not masked.
ShowsField(o, name) ==
    /\ o.src = name
    /\ \A rc \in Idx2 : ~Given(name).mask[rc] => o.data.data[rc] = Given(name).data[rc]

\* C1: in all four functions, when v_vel_contours is not None the v overlay
\* contours the field named by v_field, sliced at level, at exactly the
\* levels of v_vel_contours, whatever u_vel_contours and w_vel_contours are.
C1_VOverlayUsesVFieldAndVLevels ==
    (Returned /\ ~args.v_vel_contours.isNone) =>
        /\ Drawn("v") # {}
        /\ \A k \in Drawn("v") :
              /\ ShowsField(result.ops[k], args.v_field)
              /\ result.ops[k].levels = args.v_vel_contours

\* C2: in all four functions, bg_grid_no = -1 makes the background the
\* element-wise maximum of background_field over all grids; that maximum is
\* drawn as the mesh and gives the automatic vmin and vmax.
MaxBackground == StackMax([k \in 1 .. Len(Grids) |-> Grids[k].fields[args.background_field]])

C2_MinusOneIsMaximumOverGrids ==
    (Returned /\ args.bg_grid_no = -1) =>
        \A k \in DOMAIN result.ops :
            result.ops[k].op = "pcolormesh" =>
                /\ result.ops[k].data.data
                     = Slice(MaxBackground, Axis(args.fn), args.level).data
                /\ args.vmin.isNone => result.ops[k].lims[1] = ArrMin(MaxBackground)
                /\ args.vmax.isNone => result.ops[k].lims[2] = ArrMax(MaxBackground)

\* C3: for each of the four overlays and in each function, a contour of
\* that quantity is drawn if and only if the corresponding argument is not
\* None; with all four None no contour of a wind quantity is drawn.
QuantityDrawn(q) ==
    \E k \in DOMAIN result.ops :
        /\ IsDraw(result.ops[k])
        /\ result.ops[k].layer \in Layers
        /\ result.ops[k].src = Quantity(q)

C3_OverlayIffArgumentGiven ==
    Returned => \A q \in Layers : QuantityDrawn(q) <=> ~LevelsArg(q).isNone

\* C4 as claimed: in the map function no ValueError that arises while
\* producing the u, v, w or wind speed overlay reaches the caller.
C4_NoValueErrorReachesCaller ==
    (Done /\ args.fn = "map") => result.outcome # "ValueError"

\* The first of the u, v, w blocks that is given an empty list of levels:
\* np.min of it is taken before the try statement.
EmptyLevels(q) == ~LevelsArg(q).isNone /\ Len(LevelsArg(q).lv) = 0

\* Whether the try block of overlay q makes the call that raises.
RaisesInTry(q) ==
    /\ ~LevelsArg(q).isNone
    /\ \/ args.raises[q] \in {"clabel", "draw"}
       \/ args.raises[q] = "colorbar" /\ args.colorbar_contour_flag

TailOps(n) == SubSeq(result.ops, Len(result.ops) - n + 1, Len(result.ops))

\* C4, amended: a ValueError raised by a call inside an overlay's try block
\* is replaced by a RuntimeWarning and the call goes on to the lobes,
\* labels, title, extent and ticks and returns; the only ValueError that
\* reaches the caller is np.min of an empty u, v or w level list, which is
\* evaluated before the try statement.
C4_ValueErrorCaughtInsideTry ==
    (Done /\ args.fn = "map") =>
        /\ result.outcome = "ValueError" <=> \E q \in {"w", "u", "v"} : EmptyLevels(q)
        /\ result.outcome \in {"returned", "ValueError"}
        /\ Returned =>
              /\ Len(result.warns) = Cardinality({q \in Layers : RaisesInTry(q)})
              /\ \A k \in DOMAIN result.warns : result.warns[k][1] = "RuntimeWarning"
              /\ \A q \in Layers :
                    (~LevelsArg(q).isNone /\ ~RaisesInTry(q)) => Drawn(q) # {}
              /\ Cardinality(Drawn("lobes")) = Len(Grids) * (Len(Grids) - 1)
              /\ Len(result.ops) >= 3
              /\ [k \in 1 .. 3 |-> TailOps(3)[k].op]
                   = <<"set_extent", "set_xticks", "set_yticks">>
              /\ \E k \in DOMAIN result.ops : result.ops[k].op = "set_title"
              /\ \E k \in DOMAIN result.ops : result.ops[k].op = "set_xlabel"

\* A map call with two overlays asked for, the first of which raised inside
\* its try block, that still drew the second and returned.
C4_Witness ==
    /\ Returned /\ args.fn = "map"
    /\ RaisesInTry("u") /\ args.raises["u"] = "draw"
    /\ Len(result.warns) = 1
    /\ Drawn("u") = {} /\ Drawn("wind") # {}

\* C5: when the GeoAxes import fails, the module import still succeeds with
\* CARTOPY_AVAILABLE = False, and every call of the map function raises
\* ModuleNotFoundError before any drawing call.
C5_ImportSurvivesMissingGeoAxes ==
    geoaxes = "ImportError" =>
        /\ module = "loaded"
        /\ CARTOPY_AVAILABLE = FALSE
        /\ (Done /\ args.fn = "map") =>
              (result.outcome = "ModuleNotFoundError" /\ result.ops = <<>>)

\* C6: in the horizontal and the map function with N grids, show_lobes True
\* draws one lobe contour, at levels [min_bca, max_bca] in radians of the u
\* field of Grids[0], for every ordered pair of distinct grids and for no
\* pair (i, i); show_lobes not True, or N = 1, draws none.
DistinctPairs(n) == {p \in (0 .. n - 1) \X (0 .. n - 1) : p[1] # p[2]}

C6_LobesForEveryDistinctPair ==
    (Returned /\ args.fn \in {"horiz", "map"}) =>
        IF args.show_lobes = "True"
        THEN /\ {result.ops[k].pair : k \in Drawn("lobes")} = DistinctPairs(Len(Grids))
             /\ Cardinality(Drawn("lobes")) = Len(Grids) * (Len(Grids) - 1)
             /\ \A k \in Drawn("lobes") :
                   result.ops[k].levels.lv
                     = <<(Grids[1].attrs[args.u_field].min_bca * 17453) \div 1000,
                         (Grids[1].attrs[args.u_field].max_bca * 17453) \div 1000>>
        ELSE Drawn("lobes") = {}

C6_Witness ==
    /\ Returned /\ args.fn = "map" /\ args.show_lobes = "True"
    /\ Len(Grids) = MaxGrids
    /\ Cardinality(Drawn("lobes")) >= 2

\* C7: the xz and yz functions accept show_lobes as their documentation
\* lists; a call passing it does not fail and, with True, draws the lobes.
C7_VerticalSectionsAcceptShowLobes ==
    (Done /\ args.fn \in {"xz", "yz"} /\ "show_lobes" \in args.passed) =>
        /\ result.outcome # "TypeError"
        /\ (args.show_lobes = "True" /\ Len(Grids) > 1) => Drawn("lobes") # {}

\* C8: the functions keep no state between calls and only read their
\* inputs: a call changes neither the Grids list, nor a grid's fields or
\* attributes, nor the arguments, nor the module's own state; and calls with
\* equal arguments issue the same operations whatever calls came between.
CallStep == result = NoResult /\ result' # NoResult

SameInputsSameOutput ==
    \A i \in DOMAIN history : \A j \in DOMAIN history :
        (history[i].grids = history[j].grids /\ history[i].call = history[j].call)
            => history[i].res = history[j].res

PlainWithNaN(d, name) ==
    /\ ~d.isMA
    /\ \A rc \in Idx2 :
          /\ ~d.mask[rc]
          /\ d.data[rc] = IF Given(name).mask[rc] THEN NaN ELSE Given(name).data[rc]

C9_MaskedWindBecomesNaN ==
    Returned =>
        /\ \E k \in DOMAIN result.ops : result.ops[k].op = "streamplot"
        /\ \A k \in DOMAIN result.ops :
              /\ result.ops[k].op = "streamplot" =>
                    /\ PlainWithNaN(result.ops[k].data, result.ops[k].src)
                    /\ PlainWithNaN(result.ops[k].data2, result.ops[k].label[1])
              /\ (IsDraw(result.ops[k]) /\ result.ops[k].layer \in {"w", "u", "v"}) =>
                    \A rc \in Idx2 :
                        Given(result.ops[k].src).mask[rc]
                            => result.ops[k].data.data[rc] = NaN

C9_Witness ==
    /\ Returned
    /\ \E k \in DOMAIN result.ops :
          /\ result.ops[k].op = "streamplot"
          /\ \E rc \in Idx2 : Given(result.ops[k].src).mask[rc]
          /\ \E rc \in Idx2 : ~Given(result.ops[k].src).mask[rc]
          /\ \E rc \in Idx2 : result.ops[k].data.data[rc] = NaN
    /\ Drawn("v") # {}

\* C10: in the map function every layer of a call (mesh, streamlines, u,
\* v, w and wind speed contours, lobes) is positioned with the longitude and
\* latitude of the selected level, none with the Cartesian x / y.
Positioned(o) == o.op \in {"pcolormesh", "streamplot", "contour", "contourf"}

C10_MapLayersShareLonLat ==
    (Returned /\ args.fn = "map") =>
        \A k \in DOMAIN result.ops :
            Positioned(result.ops[k]) =>
                /\ result.ops[k].x = CSlice(Grids[1].point_longitude, 0, args.level)
                /\ result.ops[k].y = CSlice(Grids[1].point_latitude, 0, args.level)

====
